---- MODULE Spec2Model ----
(***************************************************************************)
(* State-machine model of the PaddleGame component (src/app/page.tsx):     *)
(* the React state (gameState, difficulty, gameStats, canvasSize), the     *)
(* mutable game object gameRef.current, the animation-frame loop and the   *)
(* canvas click handler.                                                   *)
(*                                                                         *)
(* Conventions                                                             *)
(*  - lengths are pixels; Math.random() positions are sampled at the two   *)
(*    ends and the middle of the interval the code draws from;             *)
(*  - Date.now() is the variable now (milliseconds); it advances from one   *)
(*    frame to the next in whole seconds, so timeLeft (seconds) stays an   *)
(*    integer, and a click reads the time of the frame before it;          *)
(*  - opacity and life are counted in steps of 0.02 (1.0 = 50 steps);      *)
(*  - a JavaScript array that is shared by reference lives in heap and is  *)
(*    named by its address;                                                *)
(*  - averageReactionTime is the fraction [num, den]; NaN is 0/0;          *)
(*  - the render-only fields speed and rotation of a sparkle and mousePos  *)
(*    are left out: nothing reads them but the drawing code.               *)
(***************************************************************************)
EXTENDS Integers, Sequences, FiniteSets, TLC

VARIABLES
    canvasSize,   \* useState canvasSize: [width, height]
    gameState,    \* useState gameState: "menu" | "game" | "end" (as rendered)
    difficulty,   \* useState difficulty (as rendered)
    gameStats,    \* useState gameStats: <<>> (null) or <<stats>>
    pendingStats, \* setGameStats/setGameState('end') queued by the ending frame,
                  \* not rendered yet: <<>> or <<stats>>
    g,            \* gameRef.current
    heap,         \* the reactionTimes arrays, by address
    now,          \* Date.now()
    startTime,    \* startTime captured by the game-loop effect
    loopSize,     \* canvas size captured by the game-loop effect's closure
    rafQueue,     \* ids of the requestAnimationFrame(gameLoop) callbacks scheduled
    animationRef, \* animationRef.current: the id requested last, 0 for undefined
    mounted,      \* the component is mounted
    hung,         \* execution is inside addNewTarget's while loop for ever
    sessions,     \* number of initializeGame calls so far (array addresses)
    frames,       \* frames run in the current session
    clicks,       \* clicks handled so far
    resizes,      \* canvas size changes so far
    statsCount,   \* GameStats objects built since the last initializeGame
    lastEvent,    \* the handler that ran last, with its input
    calc,         \* a calculatePoints call on its own: arguments and result
    budget        \* the bounds of the run explored

vars == <<canvasSize, gameState, difficulty, gameStats, pendingStats, g, heap,
          now, startTime, loopSize, rafQueue, animationRef, mounted, hung, sessions,
          frames, clicks, resizes, statsCount, lastEvent, calc, budget>>

---------------------------------------------------------------------------
(* Bounds of the model *)

MaxSessions == 2
MaxFrames == 2
MaxClicks == 2
MaxNow == 161000
MaxResizes == 1
DriftFrames == 45
FadeFrames == 50

\* Date.now() advances by one of these amounts (ms) from one frame to the next
FrameSteps == {0, 40000}

\* window.screen sizes
ScreenSizes ==
    {[width |-> 800, height |-> 600], [width |-> 1280, height |-> 720],
     [width |-> 1920, height |-> 1080]}

\* click positions tried, relative to the centre of the target spawned last
ClickOffsets == {<<60, 80>>, <<0, -200>>}

\* depth of the click tried inside the penalty zone, below NET_Y
NetDepth == 5

\* Math.sin(time * 2) * 2 sampled
OscSamples == {-2, 2}

\* the frames of a run: all of them
AnyFrame == 0..(MaxFrames + DriftFrames + FadeFrames + 2)

\* the runs explored: the difficulties selected, the clicks handled and the frames
\* they are handled after, the frames run in a session before its last one, the
\* clock steps and oscillation values of a frame, the sessions started, the
\* resizes, and whether the component gets unmounted
Run(ds, nClicks, atFrames, nFrames, steps, oscs, nSessions, nResizes, unmount) ==
    [difficulties |-> ds, clicks |-> nClicks, clickFrames |-> atFrames,
     frames |-> nFrames, steps |-> steps, oscs |-> oscs, sessions |-> nSessions,
     resizes |-> nResizes, unmount |-> unmount]

\* runs in which every frame finds the clock advanced: an easy session with a
\* resize and a click, and an intermediate session with a click
LiveScenarios ==
    {Run({"easy"}, MaxClicks - 1, AnyFrame, MaxFrames, {40000}, {2}, 1, MaxResizes, FALSE),
     Run({"intermediate"}, MaxClicks - 1, AnyFrame, MaxFrames, {40000}, {2}, 1, 0, FALSE)}

Scenarios ==
    LiveScenarios \cup
    {Run({"easy"}, MaxClicks, AnyFrame, MaxFrames, FrameSteps, OscSamples, 1, 0, FALSE),
     Run({"intermediate"}, MaxClicks - 1, AnyFrame, MaxFrames, FrameSteps, OscSamples,
         1, 0, FALSE),
     Run({"hard"}, MaxClicks - 1, AnyFrame, MaxFrames - 1, FrameSteps, OscSamples,
         1, 0, FALSE),
     Run({"easy", "intermediate"}, MaxClicks - 1, AnyFrame, MaxFrames, FrameSteps,
         OscSamples, MaxSessions, 0, FALSE),
     Run({"easy"}, MaxClicks - 1, AnyFrame, MaxFrames - 1, FrameSteps, OscSamples,
         1, MaxResizes, FALSE),
     \* a resize in a hard session
     Run({"hard"}, 0, AnyFrame, MaxFrames - 1, {0}, OscSamples, 1, MaxResizes, FALSE),
     \* the component unmounted at any moment
     Run({"easy"}, MaxClicks - 1, AnyFrame, MaxFrames, FrameSteps, OscSamples,
         MaxSessions, 0, TRUE),
     \* a long drift in a hard session, then a click
     Run({"hard"}, 1, {DriftFrames}, DriftFrames, {0}, {-2}, 1, 0, FALSE),
     \* clicks, then the frames in which their effects fade
     Run({"easy"}, MaxClicks, 0..1, FadeFrames + 1, {0}, {2}, 1, 0, FALSE)}

\* Math.random() * 1.5 + 0.5 sampled
VelocitySamples == {1}

\* Math.random() > 0.5 ? 1 : -1 sampled: both outcomes for a moving target, one
\* for a target of velocity 0, whose direction nothing reads
DirectionSamples(velocity) == IF velocity > 0 THEN {1, -1} ELSE {1}

---------------------------------------------------------------------------
(* Program constants *)

Difficulties == {"easy", "intermediate", "hard"}
LargeRadius == 190
SmallRadius == 130
SpawnMargin == 80
SessionSeconds == 60
PerfectPoints == 100
Penalty == 10
SparkleCount == 8
FullOpacity == 50

Max(a, b) == IF a >= b THEN a ELSE b
Min(a, b) == IF a <= b THEN a ELSE b

CANVAS_WIDTH == canvasSize.width
CANVAS_HEIGHT == canvasSize.height
TARGET_SPAWN_Y == (CANVAS_HEIGHT * 4) \div 10
NET_Y == (CANVAS_HEIGHT * 65) \div 100

NoStats == <<>>

NoEvent == [op |-> "mount", x |-> 0, y |-> 0]
NoCalc == [d2 |-> -1, radius |-> 0, points |-> 0, feedback |-> ""]

SharedArrayGame(addr) ==
    [score |-> 0, timeLeft |-> SessionSeconds, targets |-> <<>>, feedback |-> <<>>,
     sparkles |-> <<>>, nextTargetId |-> 0, perfectHits |-> 0, totalHits |-> 0,
     reactionTimes |-> 0]

FreshGame(addr) ==
    [score |-> 0, timeLeft |-> SessionSeconds, targets |-> <<>>, feedback |-> <<>>,
     sparkles |-> <<>>, nextTargetId |-> 0, perfectHits |-> 0, totalHits |-> 0,
     reactionTimes |-> addr]

---------------------------------------------------------------------------
(* addNewTarget: the while loop and the push *)

RadiusOf(size) == IF size = "large" THEN LargeRadius ELSE SmallRadius

AnySize(diff) == {"large", "small"}

SizeChoices(diff) == IF diff = "easy" THEN {"large"} ELSE {"large", "small"}

AlwaysMoving(diff) == VelocitySamples

VelocityChoices(diff) == IF diff = "hard" THEN VelocitySamples ELSE {0}

\* Math.random() * (CANVAS_WIDTH - radius * 2) + radius, Math.random() in [0, 1)
XSamples(width, radius) ==
    LET span == width - radius * 2 IN
    IF span > 0 THEN {radius, radius + span \div 2, radius + span - 1}
    ELSE IF span < 0 THEN {radius, radius + span \div 2, radius + span + 1}
    ELSE {radius}

Abs(a) == IF a >= 0 THEN a ELSE -a

\* the for loop of the overlap check: Math.sqrt((x - target.x) ** 2) is |x - target.x|
ValidPositionNoMargin(x, radius, targets) ==
    \A i \in 1..Len(targets) :
        ~(Abs(x - targets[i].x) < radius + targets[i].radius)

ValidPosition(x, radius, targets) ==
    \A i \in 1..Len(targets) :
        ~(Abs(x - targets[i].x) < radius + targets[i].radius + SpawnMargin)

\* the (size, x) draws on which the while loop exits
SpawnChoices(gr, diff) ==
    {c \in [size : SizeChoices(diff),
            x : UNION {XSamples(CANVAS_WIDTH, RadiusOf(s)) : s \in SizeChoices(diff)}] :
        /\ c.x \in XSamples(CANVAS_WIDTH, RadiusOf(c.size))
        /\ ValidPosition(c.x, RadiusOf(c.size), gr.targets)}

\* the game objects addNewTarget can leave behind; none when the loop never exits
addNewTarget(gr, diff) ==
    LET draws == {d \in [c : SpawnChoices(gr, diff), velocity : VelocityChoices(diff),
                          direction : {1, -1}] :
                    d.direction \in DirectionSamples(d.velocity)}
    IN  {[gr EXCEPT
            !.targets = Append(@, [id |-> gr.nextTargetId, x |-> d.c.x,
                                   y |-> TARGET_SPAWN_Y,
                                   radius |-> RadiusOf(d.c.size), size |-> d.c.size,
                                   velocity |-> d.velocity, direction |-> d.direction,
                                   createdAt |-> now]),
            !.nextTargetId = @ + 1] : d \in draws}

---------------------------------------------------------------------------
(* initializeGame, with the render and the game-loop effect that follow it *)

\* a requestAnimationFrame(gameLoop) callback is scheduled
rafPending == rafQueue # {}

\* requestAnimationFrame returns an id that no scheduled callback has and that
\* differs from the one animationRef holds; ids are only ever compared
RequestId(queue, ref) ==
    CHOOSE id \in 1..(Cardinality(queue) + 2) :
        /\ id \notin queue \cup {ref}
        /\ \A other \in 1..(id - 1) : other \in queue \cup {ref}

CancelNothing(queue, id) == queue

\* cancelAnimationFrame(animationRef.current)
cancelAnimationFrame(queue, id) == queue \ {id}

Reachable(gr, st, pst) ==
    {gr.reactionTimes} \cup {st[i].reactionTimes : i \in 1..Len(st)}
                       \cup {pst[i].reactionTimes : i \in 1..Len(pst)}

Collect(h, keep) == [a \in (DOMAIN h) \cap keep |-> h[a]]

initializeGame(selectedDifficulty) ==
    /\ ~hung
    /\ mounted
    /\ gameState \in {"menu", "end"}
    /\ gameState = "end" => selectedDifficulty = gameStats[1].mode
    /\ sessions < budget.sessions
    /\ selectedDifficulty \in budget.difficulties
    /\ LET addr == sessions + 1
           g0 == FreshGame(addr)
           h0 == [a \in (DOMAIN heap) \cup {addr} |-> IF a = addr THEN <<>> ELSE heap[a]]
       IN  /\ sessions' = addr
           /\ \E g1 \in addNewTarget(g0, selectedDifficulty) :
                \/ \E g2 \in addNewTarget(g1, selectedDifficulty) :
                     /\ g' = g2
                     /\ hung' = FALSE
                     /\ gameState' = "game"
                     /\ difficulty' = selectedDifficulty
                     /\ startTime' = now
                     /\ loopSize' = canvasSize
                     /\ animationRef' = RequestId(rafQueue, animationRef)
                     /\ rafQueue' = rafQueue \cup {animationRef'}
                \/ /\ addNewTarget(g1, selectedDifficulty) = {}
                   /\ g' = g1
                   /\ hung' = TRUE
                   /\ UNCHANGED <<gameState, difficulty, startTime, loopSize, rafQueue,
                                  animationRef>>
           /\ heap' = Collect(h0, Reachable(g0, gameStats, pendingStats))
    /\ statsCount' = 0
    /\ lastEvent' = [op |-> "initializeGame", x |-> 0, y |-> 0]
    /\ frames' = 0
    /\ UNCHANGED <<canvasSize, gameStats, pendingStats, now, mounted, clicks, resizes,
                   calc, budget>>

---------------------------------------------------------------------------
(* calculatePoints: distance is Math.sqrt(d2), kept as its square d2 *)

\* 1 - distance / radius > 0.95, i.e. distance < radius / 20
IsPerfect(d2, radius) == 400 * d2 < radius * radius

CeilPoints(d2, radius) ==
    LET k == CHOOSE k \in 0..100 :
                /\ (k * radius) * (k * radius) <= 10000 * d2
                /\ \A j \in (k + 1)..100 : (j * radius) * (j * radius) > 10000 * d2
    IN  100 - k

\* Math.floor((1 - distance / radius) * 100) = 100 - ceil(100 * distance / radius)
FloorPoints(d2, radius) ==
    LET k == CHOOSE k \in 0..100 :
                /\ (k * radius) * (k * radius) >= 10000 * d2
                /\ \A j \in 0..(k - 1) : (j * radius) * (j * radius) < 10000 * d2
    IN  100 - k

DoublePerfect(d2, radius) ==
    IF IsPerfect(d2, radius)
    THEN [points |-> 2 * PerfectPoints, feedback |-> "PERFECT"]
    ELSE [points |-> FloorPoints(d2, radius),
          feedback |-> "+" \o ToString(FloorPoints(d2, radius))]

calculatePoints(d2, radius) ==
    IF IsPerfect(d2, radius)
    THEN [points |-> PerfectPoints, feedback |-> "PERFECT"]
    ELSE [points |-> FloorPoints(d2, radius),
          feedback |-> "+" \o ToString(FloorPoints(d2, radius))]

---------------------------------------------------------------------------
(* handleCanvasClick *)

Dist2(cx, cy, t) == (cx - t.x) * (cx - t.x) + (cy - t.y) * (cy - t.y)

Contains(t, cx, cy) == Dist2(cx, cy, t) <= t.radius * t.radius

\* clickY > NET_Y
InPenaltyZone(clickY) == clickY > NET_Y

FirstHitIndex(targets, cx, cy) ==
    LET hits == {i \in 1..Len(targets) : Contains(targets[i], cx, cy)}
    IN  IF hits = {} THEN 0 ELSE CHOOSE i \in hits : \A j \in hits : i <= j

\* the for loop from the last target down: index of the target hit, 0 when none
HitIndex(targets, cx, cy) ==
    LET hits == {i \in 1..Len(targets) : Contains(targets[i], cx, cy)}
    IN  IF hits = {} THEN 0 ELSE CHOOSE i \in hits : \A j \in hits : j <= i

SpliceNothing(s, i) == s

\* targets.splice(i, 1)
Splice(s, i) == [j \in 1..(Len(s) - 1) |-> IF j < i THEN s[j] ELSE s[j + 1]]

TargetsFirstOutcome(targets, clickX, clickY) ==
    IF HitIndex(targets, clickX, clickY) # 0 THEN "hit"
    ELSE IF InPenaltyZone(clickY) THEN "penalty"
    ELSE "miss"

\* the order of the checks: the net area first, then the targets
ClickOutcome(targets, clickX, clickY) ==
    IF InPenaltyZone(clickY) THEN "penalty"
    ELSE IF HitIndex(targets, clickX, clickY) # 0 THEN "hit"
    ELSE "miss"

UnclampedScore(score) == score - Penalty

\* Math.max(0, gameRef.current.score - 10)
PenaltyScore(score) == Max(0, score - Penalty)

SparklesFromOne(cx, cy) ==
    [k \in 1..SparkleCount |-> [x |-> cx, y |-> cy, life |-> FullOpacity, angle |-> k]]

\* angle: (i / 8) * Math.PI * 2 is kept as i, in eighths of a turn
Sparkles(cx, cy) ==
    [k \in 1..SparkleCount |-> [x |-> cx, y |-> cy, life |-> FullOpacity, angle |-> k - 1]]

PenaltyClick(clickX, clickY) ==
    /\ g' = [g EXCEPT
               !.feedback = Append(@, [x |-> clickX, y |-> clickY, text |-> "MISS",
                                       points |-> 0, opacity |-> FullOpacity,
                                       isMiss |-> FALSE]),
               !.score = PenaltyScore(@)]
    /\ UNCHANGED <<heap, hung>>

HitClick(clickX, clickY, i) ==
    LET target == g.targets[i]
        d2 == Dist2(clickX, clickY, target)
        res == calculatePoints(d2, target.radius)
        reactionTime == IF target.createdAt # 0 THEN now - target.createdAt ELSE 0
        g1 == [g EXCEPT
                 !.score = @ + res.points,
                 !.totalHits = @ + 1,
                 !.perfectHits = IF res.feedback = "PERFECT" THEN @ + 1 ELSE @,
                 !.feedback = Append(@, [x |-> target.x, y |-> target.y,
                                         text |-> res.feedback, points |-> res.points,
                                         opacity |-> FullOpacity, isMiss |-> FALSE]),
                 !.targets = Splice(@, i)]
    IN  /\ heap' = [heap EXCEPT ![g.reactionTimes] = Append(@, reactionTime)]
        /\ \/ /\ g' \in addNewTarget(g1, difficulty)
              /\ hung' = FALSE
           \/ /\ addNewTarget(g1, difficulty) = {}
              /\ g' = g1
              /\ hung' = TRUE

MissClick(clickX, clickY) ==
    /\ g' = [g EXCEPT
               !.feedback = Append(@, [x |-> clickX, y |-> clickY, text |-> "MISS",
                                       points |-> 0, opacity |-> FullOpacity,
                                       isMiss |-> TRUE]),
               !.sparkles = @ \o Sparkles(clickX, clickY)]
    /\ UNCHANGED <<heap, hung>>

handleCanvasClick(clickX, clickY) ==
    /\ ~hung
    /\ mounted
    /\ gameState = "game"
    /\ clicks < budget.clicks
    /\ frames \in budget.clickFrames
    /\ LET outcome == ClickOutcome(g.targets, clickX, clickY)
       IN  IF outcome = "penalty"
           THEN PenaltyClick(clickX, clickY)
           ELSE IF outcome = "hit"
                THEN HitClick(clickX, clickY, HitIndex(g.targets, clickX, clickY))
                ELSE MissClick(clickX, clickY)
    /\ clicks' = clicks + 1
    /\ lastEvent' = [op |-> "click", x |-> clickX, y |-> clickY]
    /\ UNCHANGED <<canvasSize, gameState, difficulty, gameStats, pendingStats, now,
                   startTime, loopSize, rafQueue, animationRef, mounted, sessions, frames,
                   resizes, statsCount, calc, budget>>

\* the leftmost and rightmost point of a target that another target contains too
OverlapPoints(targets) ==
    {p \in UNION {{<<targets[i].x - targets[i].radius, targets[i].y>>,
                   <<targets[i].x + targets[i].radius, targets[i].y>>} :
                     i \in 1..Len(targets)} :
        Cardinality({i \in 1..Len(targets) : Contains(targets[i], p[1], p[2])}) > 1}

\* the clicks tried, all of them on the canvas: the centre of every live target,
\* the point of the canvas above the net line that is nearest to it, points around
\* the target spawned last, the point of the penalty zone right below the oldest
\* target, and the points found inside two targets
ClickPoints ==
    IF g.targets = <<>> THEN {}
    ELSE {p \in {<<g.targets[i].x, g.targets[i].y>> : i \in 1..Len(g.targets)}
                \cup {<<Min(g.targets[i].x, CANVAS_WIDTH - 1), Min(g.targets[i].y, NET_Y)>> :
                         i \in 1..Len(g.targets)}
                \cup {<<g.targets[Len(g.targets)].x + o[1],
                        g.targets[Len(g.targets)].y + o[2]>> : o \in ClickOffsets}
                \cup {<<g.targets[1].x, NET_Y + NetDepth>>}
                \cup OverlapPoints(g.targets) :
            /\ 0 <= p[1] /\ p[1] < CANVAS_WIDTH
            /\ 0 <= p[2] /\ p[2] < CANVAS_HEIGHT}

---------------------------------------------------------------------------
(* gameLoop: one animation frame, draw included *)

\* Math.max(0, 60 - elapsed), elapsed = (Date.now() - startTime) / 1000
Remaining(t) == Max(0, SessionSeconds - (t - startTime) \div 1000)

\* target.x = Math.max(radius, Math.min(CANVAS_WIDTH - radius, target.x + osc))
Oscillate(t, osc) ==
    [t EXCEPT !.x = Max(t.radius, Min(loopSize.width - t.radius, t.x + osc))]

\* draw: the drift of a moving target and its bounce off the canvas edges
Drift(t) ==
    IF t.velocity > 0
    THEN LET x1 == t.x + t.direction * t.velocity
         IN  [t EXCEPT !.x = x1,
                       !.direction = IF x1 - t.radius < 0 THEN 1
                                     ELSE IF x1 + t.radius > loopSize.width THEN -1
                                     ELSE @]
    ELSE t

MoveTargets(targets, osc) ==
    [i \in 1..Len(targets) |->
        Drift(IF difficulty = "hard" THEN Oscillate(targets[i], osc) ELSE targets[i])]

\* draw: sparkle.life -= 0.02, removed when life <= 0
AgeSparkles(sparkles) ==
    LET aged == [i \in 1..Len(sparkles) |-> [sparkles[i] EXCEPT !.life = @ - 1]]
        Alive(sp) == ~(sp.life <= 0)
    IN  SelectSeq(aged, Alive)

AgeFeedbackKeepZero(feedback) ==
    LET aged == [i \in 1..Len(feedback) |-> [feedback[i] EXCEPT !.opacity = @ - 1]]
        Alive(fb) == ~(fb.opacity < 0)
    IN  SelectSeq(aged, Alive)

\* draw: fb.opacity -= 0.02, removed when opacity <= 0
AgeFeedback(feedback) ==
    LET aged == [i \in 1..Len(feedback) |-> [feedback[i] EXCEPT !.opacity = @ - 1]]
        Alive(fb) == ~(fb.opacity <= 0)
    IN  SelectSeq(aged, Alive)

RECURSIVE Sum(_)
\* reactionTimes.reduce((a, b) => a + b, 0)
Sum(s) == IF s = <<>> THEN 0 ELSE s[1] + Sum(Tail(s))

Fraction(n, d) == [num |-> n, den |-> d]

AverageNoGuard(times) == Fraction(Sum(times), Len(times))

avgReactionTime(times) ==
    IF Len(times) > 0 THEN Fraction(Sum(times), Len(times)) ELSE Fraction(0, 1)

EndsEarly(timeLeft) == ~(timeLeft > SessionSeconds \div 2)

\* the else branch of: if (gameRef.current.timeLeft > 0)
SessionOver(timeLeft) == ~(timeLeft > 0)

BuildStats(gr) ==
    [finalScore |-> gr.score, perfectHits |-> gr.perfectHits, totalHits |-> gr.totalHits,
     reactionTimes |-> gr.reactionTimes,
     averageReactionTime |-> avgReactionTime(heap[gr.reactionTimes]),
     mode |-> difficulty]

gameLoop ==
    /\ ~hung
    /\ \E id \in rafQueue, step \in budget.steps, osc \in budget.oscs :
         LET g1 == [g EXCEPT !.timeLeft = Remaining(now + step),
                             !.targets = MoveTargets(@, osc),
                             !.sparkles = AgeSparkles(@),
                             !.feedback = AgeFeedback(@)]
         IN  /\ step > 0 => Remaining(now) > 0 /\ now + step <= MaxNow
             /\ frames < budget.frames \/ SessionOver(g1.timeLeft)
             /\ now' = now + step
             /\ g' = g1
             /\ IF SessionOver(g1.timeLeft)
                THEN /\ pendingStats' = <<BuildStats(g1)>>
                     /\ statsCount' = statsCount + 1
                     /\ rafQueue' = rafQueue \ {id}
                     /\ UNCHANGED animationRef
                ELSE /\ animationRef' = RequestId(rafQueue \ {id}, animationRef)
                     /\ rafQueue' = (rafQueue \ {id}) \cup {animationRef'}
                     /\ UNCHANGED <<pendingStats, statsCount>>
    /\ frames' = frames + 1
    /\ lastEvent' = [op |-> "gameLoop", x |-> 0, y |-> 0]
    /\ UNCHANGED <<canvasSize, gameState, difficulty, gameStats, heap, startTime,
                   loopSize, mounted, hung, sessions, clicks, resizes, calc, budget>>

\* React renders the updates queued by setGameStats(stats); setGameState('end'),
\* and runs the cleanup of the game-loop effect
RenderEnd ==
    /\ ~hung
    /\ mounted
    /\ pendingStats # NoStats
    /\ gameState' = "end"
    /\ gameStats' = pendingStats
    /\ pendingStats' = NoStats
    /\ heap' = Collect(heap, Reachable(g, pendingStats, NoStats))
    /\ lastEvent' = [op |-> "render", x |-> 0, y |-> 0]
    /\ rafQueue' = cancelAnimationFrame(rafQueue, animationRef)
    /\ UNCHANGED <<canvasSize, difficulty, g, now, startTime, loopSize, animationRef,
                   mounted, hung, sessions, frames, clicks, resizes, statsCount, calc,
                   budget>>

\* the Menu button of the end screen: setGameState('menu')
BackToMenu ==
    /\ ~hung
    /\ mounted
    /\ gameState = "end"
    /\ gameState' = "menu"
    /\ lastEvent' = [op |-> "menu", x |-> 0, y |-> 0]
    /\ UNCHANGED <<canvasSize, difficulty, gameStats, pendingStats, g, heap, now,
                   startTime, loopSize, rafQueue, animationRef, mounted, hung, sessions,
                   frames, clicks, resizes, statsCount, calc, budget>>

\* updateCanvasSize on resize / fullscreenchange, tried while the canvas is shown
updateCanvasSize ==
    /\ ~hung
    /\ mounted
    /\ resizes < budget.resizes
    /\ gameState = "game"
    /\ \E size \in ScreenSizes \ {canvasSize} : canvasSize' = size
    /\ resizes' = resizes + 1
    /\ lastEvent' = [op |-> "resize", x |-> 0, y |-> 0]
    /\ UNCHANGED <<gameState, difficulty, gameStats, pendingStats, g, heap, now,
                   startTime, loopSize, rafQueue, animationRef, mounted, hung, sessions,
                   frames, clicks, statsCount, calc, budget>>

\* the component is unmounted: the cleanup of the game-loop effect runs when the
\* game screen is shown, and the listeners and handlers go away
Unmount ==
    /\ ~hung
    /\ mounted
    /\ budget.unmount
    /\ mounted' = FALSE
    /\ rafQueue' = IF gameState = "game"
                   THEN cancelAnimationFrame(rafQueue, animationRef)
                   ELSE rafQueue
    /\ lastEvent' = [op |-> "unmount", x |-> 0, y |-> 0]
    /\ UNCHANGED <<canvasSize, gameState, difficulty, gameStats, pendingStats, g, heap,
                   now, startTime, loopSize, animationRef, hung, sessions, frames,
                   clicks, resizes, statsCount, calc, budget>>

---------------------------------------------------------------------------

InitGame ==
    /\ canvasSize \in ScreenSizes
    /\ gameState = "menu"
    /\ difficulty = "easy"
    /\ gameStats = NoStats
    /\ pendingStats = NoStats
    /\ g = FreshGame(0)
    /\ heap = [a \in {0} |-> <<>>]
    /\ now = 1000
    /\ startTime = 0
    /\ loopSize = canvasSize
    /\ rafQueue = {}
    /\ animationRef = 0
    /\ mounted = TRUE
    /\ hung = FALSE
    /\ sessions = 0
    /\ frames = 0
    /\ clicks = 0
    /\ resizes = 0
    /\ statsCount = 0
    /\ lastEvent = NoEvent
    /\ budget \in Scenarios

Init == InitGame /\ calc = NoCalc

Next ==
    \/ \E d \in Difficulties : initializeGame(d)
    \/ \E p \in ClickPoints : handleCanvasClick(p[1], p[2])
    \/ gameLoop
    \/ RenderEnd
    \/ BackToMenu
    \/ updateCanvasSize
    \/ Unmount

Spec == Init /\ [][Next]_vars

---------------------------------------------------------------------------
(* The game with its scheduling: a requested animation frame does get run, and  *)
(* React does render the updates queued; the component stays mounted            *)

InitLive == Init /\ budget \in LiveScenarios

NextLive ==
    \/ \E d \in Difficulties : initializeGame(d)
    \/ \E p \in ClickPoints : handleCanvasClick(p[1], p[2])
    \/ gameLoop
    \/ RenderEnd
    \/ BackToMenu
    \/ updateCanvasSize

SpecLive == InitLive /\ [][NextLive]_vars /\ WF_vars(gameLoop) /\ WF_vars(RenderEnd)

---------------------------------------------------------------------------
(* calculatePoints on its own, over the distances a hit can have *)

\* squared distances dx * dx + dy * dy tried
DySamples == {0, 3, 50}

CalcInputs ==
    {c \in [d2 : {dx * dx + dy * dy : dx \in 0..LargeRadius, dy \in DySamples},
             radius : {SmallRadius, LargeRadius}, points : {0}, feedback : {""}] :
        c.d2 <= c.radius * c.radius}

InitPoints == InitGame /\ calc \in CalcInputs

Calculate ==
    /\ calc.d2 >= 0
    /\ calc.feedback = ""
    /\ calc' = [calc EXCEPT !.points = calculatePoints(calc.d2, calc.radius).points,
                            !.feedback = calculatePoints(calc.d2, calc.radius).feedback]
    /\ UNCHANGED <<canvasSize, gameState, difficulty, gameStats, pendingStats, g, heap,
                   now, startTime, loopSize, rafQueue, animationRef, mounted, hung,
                   sessions, frames, clicks, resizes, statsCount, lastEvent, budget>>

NextPoints == Calculate

SpecPoints == InitPoints /\ [][NextPoints]_vars

---------------------------------------------------------------------------
(* Properties *)

Ids(targets) == {targets[i].id : i \in 1..Len(targets)}

StatsOf(st) == {st[i] : i \in 1..Len(st)}

\* the step is a run of handleCanvasClick / of gameLoop
ClickStep == lastEvent'.op = "click"
FrameStep == lastEvent'.op = "gameLoop"

\* C1: a click with clickY > NET_Y takes 10 points off the score, not below 0, and
\* hits nothing: the live targets, totalHits, perfectHits and the reaction times
\* stay as they were, also when a live target's circle contains the click point.
C1_PenaltyZoneClick ==
    [][(ClickStep /\ lastEvent'.y > NET_Y) =>
          /\ g'.score = (IF g.score >= 10 THEN g.score - 10 ELSE 0)
          /\ g'.targets = g.targets
          /\ g'.totalHits = g.totalHits
          /\ g'.perfectHits = g.perfectHits
          /\ g'.reactionTimes = g.reactionTimes
          /\ heap' = heap]_vars

\* a penalty-zone click inside the circle of a live target, after a hit had
\* raised the score
C1_Witness ==
    /\ lastEvent.op = "click"
    /\ lastEvent.y > NET_Y
    /\ \E i \in 1..Len(g.targets) : Contains(g.targets[i], lastEvent.x, lastEvent.y)
    /\ g.totalHits = 1
    /\ g.score = 90

\* C2: the score is an integer >= 0 in every reachable state.
C2_ScoreNonNegative == g.score \in Nat

\* a penalty-zone click made with fewer than 10 points
C2_Witness ==
    /\ lastEvent.op = "click"
    /\ lastEvent.y > NET_Y
    /\ g.score = 0

\* C3: while the game screen is shown and no handler is stuck, there are 2 live
\* targets after every handler; a hit takes one target away and adds one new one;
\* a miss, a penalty-zone click and a frame keep the same targets.
C3_TwoLiveTargets ==
    [][(gameState' = "game" /\ ~hung') =>
          /\ Len(g'.targets) = 2
          /\ Cardinality(Ids(g'.targets)) = 2
          /\ (ClickStep /\ g'.totalHits # g.totalHits) =>
                /\ Cardinality(Ids(g.targets) \ Ids(g'.targets)) = 1
                /\ Cardinality(Ids(g'.targets) \ Ids(g.targets)) = 1
          /\ ((ClickStep /\ g'.totalHits = g.totalHits) \/ FrameStep) =>
                Ids(g'.targets) = Ids(g.targets)]_vars

\* two hits, each with its replacement spawned
C3_Witness ==
    /\ gameState = "game"
    /\ ~hung
    /\ lastEvent.op = "click"
    /\ g.totalHits = 2
    /\ Ids(g.targets) \cap {0, 1} = {}

C5_EndsOnceAtZero ==
    [][/\ FrameStep =>
            /\ g.timeLeft > 0
            /\ g'.timeLeft = Max(0, 60 - (now' - startTime) \div 1000)
            /\ (g'.timeLeft = 0) <=> (pendingStats' # NoStats /\ ~rafPending')
            /\ (g'.timeLeft = 0) <=> (statsCount' = statsCount + 1)
            /\ (g'.timeLeft > 0) => (statsCount' = statsCount /\ rafPending')
       /\ statsCount' <= 1
       /\ (gameState' = "end" /\ gameState # "end") =>
            (g.timeLeft = 0 /\ statsCount = 1)]_vars

\* the second session of a run has ended, after a frame that left time on the clock
C5_Witness ==
    /\ sessions = 2
    /\ gameState = "end"
    /\ statsCount = 1
    /\ g.timeLeft = 0
    /\ frames >= 2

\* C6: addNewTarget always returns: no handler stays in its while loop.
C6_SpawnerTerminates == ~hung

\* C7: a target just spawned is, in x and so in the plane, at least the two radii
\* plus 80 away from every other live target.
C7_SpawnDistance ==
    [][\A i \in 1..Len(g'.targets) :
          (lastEvent'.op = "initializeGame" \/ g'.targets[i].id \notin Ids(g.targets)) =>
              \A j \in 1..Len(g'.targets) : j # i =>
                  LET a == g'.targets[i]
                      b == g'.targets[j]
                      need == a.radius + b.radius + 80
                  IN  /\ (a.x - b.x) * (a.x - b.x) >= need * need
                      /\ Dist2(a.x, a.y, b) >= need * need]_vars

\* a replacement spawned after a hit next to the target that stayed
C7_Witness ==
    /\ lastEvent.op = "click"
    /\ g.totalHits = 1
    /\ Len(g.targets) = 2
    /\ g.targets[2].id = 2
    /\ g.targets[2].size = "small"

\* C8: the reaction-time array of the session holds one entry per hit, and so does
\* the array of every GameStats built.
C8_ReactionTimesMatchHits ==
    /\ Len(heap[g.reactionTimes]) = g.totalHits
    /\ \A st \in StatsOf(gameStats) \cup StatsOf(pendingStats) :
          Len(heap[st.reactionTimes]) = st.totalHits

\* C9: the GameStats built by the last frame of a session carries the score and
\* the hit counters of that moment, and averageReactionTime is 0 without reaction
\* times and their sum divided by their number otherwise.
C9_StatsAtEnd ==
    [][(FrameStep /\ g'.timeLeft = 0) =>
          /\ pendingStats' # NoStats
          /\ LET st == pendingStats'[1]
                 times == heap'[g'.reactionTimes]
                 avg == st.averageReactionTime
             IN  /\ st.finalScore = g'.score
                 /\ st.perfectHits = g'.perfectHits
                 /\ st.totalHits = g'.totalHits
                 /\ avg.den # 0
                 /\ times = <<>> => avg.num = 0
                 /\ g'.totalHits = 0 => avg.num = 0
                 /\ times # <<>> => avg.num * Len(times) = Sum(times) * avg.den]_vars

\* statistics built after two hits with different reaction times
C9_Witness ==
    /\ pendingStats # NoStats
    /\ pendingStats[1].totalHits = 2
    /\ pendingStats[1].averageReactionTime = Fraction(40000, 2)

\* C10: a click handled after the frame that built the GameStats, before the end
\* screen is rendered, changes nothing: not the game object, not the reaction
\* times, not the GameStats built.
C10_LateClickNoOp ==
    [][(ClickStep /\ pendingStats # NoStats) =>
          /\ g' = g
          /\ heap' = heap
          /\ pendingStats' = pendingStats]_vars

\* the targets of a sequence; the targets that contain a point
TargetSet(targets) == {targets[i] : i \in 1..Len(targets)}
Containing(targets, cx, cy) == {t \in TargetSet(targets) : Contains(t, cx, cy)}

\* C11: the step that shows the game screen, from the menu or by Play Again,
\* leaves score 0, timeLeft 60, perfectHits 0, totalHits 0, no feedback, no
\* sparkles, an empty reaction-time array that no earlier session or GameStats
\* holds, and exactly 2 targets, with ids 0 and 1, created at that moment; Play
\* Again keeps the difficulty of the session that ended.
C11_FreshSession ==
    [][(gameState' = "game" /\ gameState # "game") =>
          /\ g'.score = 0
          /\ g'.timeLeft = 60
          /\ g'.perfectHits = 0
          /\ g'.totalHits = 0
          /\ g'.feedback = <<>>
          /\ g'.sparkles = <<>>
          /\ heap'[g'.reactionTimes] = <<>>
          /\ g'.reactionTimes # g.reactionTimes
          /\ \A st \in StatsOf(gameStats') : st.reactionTimes # g'.reactionTimes
          /\ Len(g'.targets) = 2
          /\ Ids(g'.targets) = {0, 1}
          /\ \A t \in TargetSet(g'.targets) : t.createdAt = now'
          /\ gameState = "end" => difficulty' = gameStats[1].mode
          /\ startTime' = now']_vars

\* Play Again after a session with a hit and points
C11_Witness ==
    /\ lastEvent.op = "initializeGame"
    /\ gameState = "game"
    /\ sessions = 2
    /\ gameStats # NoStats
    /\ gameStats[1].totalHits = 1
    /\ gameStats[1].finalScore > 0
    /\ heap[gameStats[1].reactionTimes] # <<>>

\* C12: at most one gameLoop callback is scheduled at any time, and only while
\* the component is mounted and shows the game screen of a session that has not
\* built its GameStats; the frame that ends the session schedules none; so no
\* frame runs after the session ended or the component was unmounted.
C12_FrameLoopOnlyWhileActive ==
    [][/\ Cardinality(rafQueue') <= 1
       /\ rafQueue' # {} => (mounted' /\ gameState' = "game" /\ pendingStats' = NoStats)
       /\ (FrameStep /\ g'.timeLeft = 0) => rafQueue' = {}
       /\ FrameStep => (mounted /\ gameState = "game" /\ pendingStats = NoStats)
       /\ ~mounted => (g' = g /\ heap' = heap)]_vars

\* the component unmounted during the second session, with frames run in it
C12_Witness ==
    /\ ~mounted
    /\ gameState = "game"
    /\ sessions = 2
    /\ frames >= 1
    /\ g.timeLeft > 0
    /\ rafQueue = {}

\* C13: the targets of an easy or intermediate session have velocity 0, those of
\* a hard session a velocity v with 0.5 <= v < 2.
C13_VelocityByDifficulty ==
    gameState = "game" =>
        \A t \in TargetSet(g.targets) :
            /\ difficulty \in {"easy", "intermediate"} => t.velocity = 0
            /\ difficulty = "hard" => (2 * t.velocity >= 1 /\ t.velocity < 2)
            /\ t.velocity # 0 => difficulty = "hard"

\* a replacement spawned after a hit in an intermediate session
C13_Witness ==
    /\ gameState = "game"
    /\ difficulty = "intermediate"
    /\ lastEvent.op = "click"
    /\ g.totalHits = 1
    /\ \E t \in TargetSet(g.targets) : t.id = 2 /\ t.velocity = 0

\* C14: a large target has radius 190 and a small one 130, there is no other size,
\* and the targets of an easy session are large.
C14_RadiusBySize ==
    \A t \in TargetSet(g.targets) :
        /\ t.size \in {"large", "small"}
        /\ t.size = "large" => t.radius = 190
        /\ t.size = "small" => t.radius = 130
        /\ (gameState = "game" /\ difficulty = "easy") => t.size = "large"

\* two replacements spawned in an easy session
C14_Witness ==
    /\ gameState = "game"
    /\ difficulty = "easy"
    /\ g.totalHits = 2
    /\ Len(g.targets) = 2
    /\ \A t \in TargetSet(g.targets) : t.id >= 2 /\ t.radius = 190

\* C15: a click above the net line inside no target appends 8 sparkles at the
\* click point with life 1, one for each angle i / 8 of a turn, i = 0..7, and one
\* MISS feedback with 0 points marked isMiss, and changes nothing else; no other
\* click changes the sparkles.
C15_MissClick ==
    [][ClickStep =>
          IF lastEvent'.y <= NET_Y /\ Containing(g.targets, lastEvent'.x, lastEvent'.y) = {}
          THEN /\ Len(g'.sparkles) = Len(g.sparkles) + 8
               /\ SubSeq(g'.sparkles, 1, Len(g.sparkles)) = g.sparkles
               /\ \A k \in 1..8 :
                     LET sp == g'.sparkles[Len(g.sparkles) + k]
                     IN  /\ sp.x = lastEvent'.x
                         /\ sp.y = lastEvent'.y
                         /\ sp.life = FullOpacity
                         /\ sp.angle = k - 1
               /\ g'.feedback = Append(g.feedback,
                                       [x |-> lastEvent'.x, y |-> lastEvent'.y,
                                        text |-> "MISS", points |-> 0,
                                        opacity |-> FullOpacity, isMiss |-> TRUE])
               /\ g'.score = g.score
               /\ g'.targets = g.targets
               /\ g'.totalHits = g.totalHits
               /\ g'.perfectHits = g.perfectHits
               /\ g'.reactionTimes = g.reactionTimes
               /\ heap' = heap
          ELSE g'.sparkles = g.sparkles]_vars

\* a miss after a hit: the score and the hit count stay, 8 sparkles appear
C15_Witness ==
    /\ lastEvent.op = "click"
    /\ lastEvent.y <= NET_Y
    /\ Containing(g.targets, lastEvent.x, lastEvent.y) = {}
    /\ g.totalHits = 1
    /\ g.score > 0
    /\ Len(g.sparkles) = 8
    /\ Len(g.targets) = 2

\* C16: a click above the net line inside more than one target hits the one with
\* the greatest id and only that one: it is removed, its centre gets the feedback,
\* totalHits grows by 1, and the other targets stay as they were.
C16_MostRecentHit ==
    [][(ClickStep /\ lastEvent'.y <= NET_Y
          /\ Cardinality(Containing(g.targets, lastEvent'.x, lastEvent'.y)) > 1) =>
          LET inside == Containing(g.targets, lastEvent'.x, lastEvent'.y)
              top == CHOOSE t \in inside : \A u \in inside : u.id <= t.id
              fb == g'.feedback[Len(g'.feedback)]
          IN  /\ top.id \notin Ids(g'.targets)
              /\ \A t \in TargetSet(g.targets) \ {top} : t \in TargetSet(g'.targets)
              /\ g'.totalHits = g.totalHits + 1
              /\ Len(g'.feedback) = Len(g.feedback) + 1
              /\ fb.x = top.x /\ fb.y = top.y
              /\ g'.score = g.score + fb.points]_vars

\* after a click, an older target that contains the click point is still live:
\* the click was inside it and inside the newer target that was hit
C16_Witness ==
    /\ lastEvent.op = "click"
    /\ lastEvent.y <= NET_Y
    /\ g.totalHits = 1
    /\ ~hung
    /\ Len(g.targets) = 2
    /\ g.targets[1].id = 0
    /\ g.targets[2].id = 2
    /\ Contains(g.targets[1], lastEvent.x, lastEvent.y)

\* C17: in a hard session every target ends every frame with its centre x in
\* [radius, canvas width - radius].
C17_TargetsWithinCanvas ==
    [][(FrameStep /\ difficulty = "hard") =>
          \A t \in TargetSet(g'.targets) :
              t.radius <= t.x /\ t.x <= canvasSize.width - t.radius]_vars

\* C18: a frame keeps the targets and their id, y, radius, size, velocity and
\* createdAt; in a hard session a target that ends the frame with x - radius < 0
\* has direction 1 and one with x + radius > canvas width has direction -1; in an
\* easy or intermediate session a frame keeps x as well.
C18_FrameMovesOnlyX ==
    [][FrameStep =>
          /\ Len(g'.targets) = Len(g.targets)
          /\ \A i \in 1..Len(g.targets) :
                LET old == g.targets[i]
                    new == g'.targets[i]
                IN  /\ new.id = old.id
                    /\ new.y = old.y
                    /\ new.radius = old.radius
                    /\ new.size = old.size
                    /\ new.velocity = old.velocity
                    /\ new.createdAt = old.createdAt
                    /\ (difficulty = "hard" /\ new.x - new.radius < 0) =>
                          new.direction = 1
                    /\ (difficulty = "hard" /\ new.x + new.radius > canvasSize.width) =>
                          new.direction = -1
                    /\ difficulty \in {"easy", "intermediate"} => new.x = old.x]_vars

\* the effects: the opacity of every feedback event and the life of every sparkle
EffectValues(gr) ==
    {gr.feedback[i].opacity : i \in 1..Len(gr.feedback)}
        \cup {gr.sparkles[i].life : i \in 1..Len(gr.sparkles)}

\* the values a list of effects is left with by a frame
Faded(values) ==
    LET left == {i \in 1..Len(values) : values[i] > 1}
        Nth(k) == CHOOSE i \in left : Cardinality({j \in left : j < i}) = k - 1
    IN  [k \in 1..Cardinality(left) |-> values[Nth(k)] - 1]

\* C19: a click appends one feedback event with opacity 1 (50 steps of 0.02); a
\* frame takes one step off every opacity and every life and removes the effects
\* that reach 0, keeping the others in order; so after a frame every effect has a
\* value > 0 and has lived through fewer than 50 frames.
C19_EffectsFade ==
    [][/\ ClickStep =>
            /\ Len(g'.feedback) = Len(g.feedback) + 1
            /\ SubSeq(g'.feedback, 1, Len(g.feedback)) = g.feedback
            /\ g'.feedback[Len(g'.feedback)].opacity = FullOpacity
       /\ FrameStep =>
            /\ [i \in 1..Len(g'.feedback) |-> g'.feedback[i].opacity]
                  = Faded([i \in 1..Len(g.feedback) |-> g.feedback[i].opacity])
            /\ [i \in 1..Len(g'.sparkles) |-> g'.sparkles[i].life]
                  = Faded([i \in 1..Len(g.sparkles) |-> g.sparkles[i].life])
            /\ \A v \in EffectValues(g') : v > 0 /\ v <= FullOpacity - 1
       /\ \A v \in EffectValues(g') : v > 0 /\ v <= FullOpacity]_vars

\* two clicks before the second frame, one of them a hit, and 51 frames run:
\* all the effects are gone
C19_Witness ==
    /\ lastEvent.op = "gameLoop"
    /\ frames = 51
    /\ clicks = 2
    /\ g.totalHits = 1
    /\ g.feedback = <<>>
    /\ g.sparkles = <<>>

\* C20: a hit adds the points to the score, 1 to totalHits, 1 to perfectHits when
\* it is PERFECT and 0 otherwise, the reaction time now - createdAt to the
\* reaction times, one feedback event with the label and the points at the centre
\* of the target hit, removes that target and adds one target with a new id; the
\* other target, the sparkles and timeLeft stay as they were.
C20_HitEffects ==
    [][(ClickStep /\ g'.totalHits # g.totalHits) =>
          LET inside == Containing(g.targets, lastEvent'.x, lastEvent'.y)
              top == CHOOSE t \in inside : \A u \in inside : u.id <= t.id
              d2 == Dist2(lastEvent'.x, lastEvent'.y, top)
              perfect == 400 * d2 < top.radius * top.radius
              fb == g'.feedback[Len(g'.feedback)]
              added == {t \in TargetSet(g'.targets) : t.id \notin Ids(g.targets)}
          IN  /\ inside # {}
              /\ g'.score = g.score + fb.points
              /\ fb.points \in 0..100
              /\ perfect <=> fb.text = "PERFECT"
              /\ perfect => fb.points = 100
              /\ g'.totalHits = g.totalHits + 1
              /\ g'.perfectHits = g.perfectHits + (IF perfect THEN 1 ELSE 0)
              /\ g'.reactionTimes = g.reactionTimes
              /\ heap'[g.reactionTimes] = Append(heap[g.reactionTimes], now - top.createdAt)
              /\ Len(g'.feedback) = Len(g.feedback) + 1
              /\ SubSeq(g'.feedback, 1, Len(g.feedback)) = g.feedback
              /\ fb.x = top.x /\ fb.y = top.y /\ fb.opacity = FullOpacity
              /\ top.id \notin Ids(g'.targets)
              /\ TargetSet(g.targets) \ {top} \subseteq TargetSet(g'.targets)
              /\ Cardinality(added) = 1
              /\ Len(g'.targets) = Len(g.targets)
              /\ \A t \in added : t.id = g.nextTargetId
              /\ g'.sparkles = g.sparkles
              /\ g'.timeLeft = g.timeLeft]_vars

\* C21: while the game screen is shown, all live targets have the same y, also
\* after the canvas size changed.
C21_OneSpawnRow ==
    gameState = "game" =>
        \A t \in TargetSet(g.targets), u \in TargetSet(g.targets) : t.y = u.y

\* C22: timeLeft stays within 0..60, no frame raises it, and a session whose game
\* screen is shown gets to its end screen.
C22_SessionEnds ==
    /\ [](g.timeLeft \in 0..60)
    /\ [][FrameStep => g'.timeLeft <= g.timeLeft]_vars
    /\ (gameState = "game") ~> (gameState = "end")

\* C23: perfectHits is at least 0 and at most totalHits, and the score is at most
\* 100 times totalHits, in the game object and in every GameStats built.
C23_HitCounters ==
    /\ g.perfectHits \in Nat
    /\ g.totalHits \in Nat
    /\ g.perfectHits <= g.totalHits
    /\ g.score <= 100 * g.totalHits
    /\ \A st \in StatsOf(gameStats) \cup StatsOf(pendingStats) :
          /\ st.perfectHits \in Nat
          /\ st.perfectHits <= st.totalHits
          /\ st.finalScore <= 100 * st.totalHits

\* a PERFECT hit and a hit off the centre: one of the two hits is PERFECT and the
\* score is below 100 per hit
C23_Witness ==
    /\ g.totalHits = 2
    /\ g.perfectHits = 1
    /\ g.score > 100
    /\ g.score < 200

====
